---- MODULE Spec2Model ----
(***************************************************************************)
(* Data-access layer of the articles database: the Author, Magazine and    *)
(* Article models (lib/models) over an SQLite store (lib/db).              *)
(*                                                                         *)
(* State: the three tables of the store, the entity instances a client     *)
(* holds, and a record of the last call and its outcome.  One action per   *)
(* method call; a call runs to completion (execute, commit or rollback,    *)
(* close) before the next one starts.                                      *)
(***************************************************************************)
EXTENDS Integers, Sequences, FiniteSets, TLC

VARIABLES db, author_objs, magazine_objs, article_objs, last, calls, conns, run

vars == <<db, author_objs, magazine_objs, article_objs, last, calls, conns, run>>

(***************************************************************************)
(* Bounds of the exploration.                                              *)
(***************************************************************************)
\* number of method calls a client makes in one run
MaxCalls == 3

(***************************************************************************)
(* Python values.  A value is a record [t, v]: t is the Python type        *)
(* ("str", "int", "none") and v its text.  Ids are integers >= 1; the      *)
(* Python None of an unset id is NoneId.                                   *)
(***************************************************************************)
NoneId == 0

PyStr(s) == [t |-> "str", v |-> s]
PyInt(s) == [t |-> "int", v |-> s]
NoneVal == [t |-> "none", v |-> ""]

\* the str s repeated n times
RECURSIVE Rep(_, _)
Rep(s, n) ==
    IF n = 0 THEN ""
    ELSE LET half == Rep(s, n \div 2)
         IN  half \o half \o (IF n % 2 = 1 THEN s ELSE "")

\* isinstance(x, str)
IsStr(x) == x.t = "str"
\* len(x) of a str
PyLen(x) == Len(x.v)

(***************************************************************************)
(* Validation rules of the three constructors and the four setters.        *)
(***************************************************************************)
AuthorNameOk(x) == IsStr(x) /\ 0 < PyLen(x) /\ PyLen(x) <= 255
MagazineNameOk(x) == IsStr(x) /\ 2 <= PyLen(x) /\ PyLen(x) <= 16
CategoryOk(x) == IsStr(x) /\ 0 < PyLen(x) /\ PyLen(x) <= 20
TitleOk(x) == IsStr(x) /\ 0 < PyLen(x) /\ PyLen(x) <= 50

(***************************************************************************)
(* The store.  A table is a function from the ids of its rows to the rows. *)
(* The schema gives every text column TEXT affinity and NOT NULL, the two  *)
(* name columns UNIQUE, the id column INTEGER PRIMARY KEY, and the two     *)
(* foreign keys of articles ON DELETE CASCADE.                             *)
(***************************************************************************)
EmptyTable == [i \in {} |-> NoneVal]
EmptyDb == [authors |-> EmptyTable, magazines |-> EmptyTable, articles |-> EmptyTable]

Max(S) == CHOOSE m \in S : \A n \in S : n <= m

\* the rowid SQLite gives the next inserted row of an INTEGER PRIMARY KEY table
NextRowid(tbl) == IF DOMAIN tbl = {} THEN 1 ELSE Max(DOMAIN tbl) + 1

\* a value as a TEXT column stores it: numbers are converted to their text
TextAffinity(x) == IF x.t = "int" THEN PyStr(x.v) ELSE x

\* NOT NULL on a text column
NotNull(x) == x.t # "none"

\* faulty variant: the name column declared without UNIQUE
NameUnique_undeclared(tbl, name, self) == TRUE

\* UNIQUE on a name column: no row other than `self` holds the name
NameUnique(tbl, name, self) == \A i \in DOMAIN tbl \ {self} : tbl[i].name # name

\* sqlite3.connect() leaves foreign-key enforcement at its default: off
foreign_keys == FALSE

\* tbl with the row of id i added or replaced
Put(tbl, i, row) == [j \in DOMAIN tbl \cup {i} |-> IF j = i THEN row ELSE tbl[j]]

\* tbl without the rows whose ids are in S
Drop(tbl, S) == [j \in DOMAIN tbl \ S |-> tbl[j]]

(***************************************************************************)
(* Outcome of a call:                                                      *)
(*   "ok"     it ran to its normal end                                     *)
(*   "error"  an exception was caught inside the method: rolled back,      *)
(*            printed, and the method returned None                        *)
(*   "noop"   the method did nothing (the instance has no id)              *)
(*   "null"   a finder matched no row and returned None                    *)
(*   "raise"  an exception propagated to the caller                        *)
(***************************************************************************)
Outcomes == {"ok", "error", "noop", "null", "raise"}

\* what a method hands back to the action: the store, the instance (or the
\* returned entity), and the outcome
Res(d, o, out) == [db |-> d, obj |-> o, outcome |-> out]

NoAuthor == [id |-> NoneId, name |-> NoneVal]
NoMagazine == [id |-> NoneId, name |-> NoneVal, category |-> NoneVal]
NoArticle == [id |-> NoneId, title |-> NoneVal, author_id |-> NoneId, magazine_id |-> NoneId]

(***************************************************************************)
(* SQL statements of the models.  Each returns [ok, db, id]: ok is FALSE   *)
(* when the statement raises (a constraint fails, or the engine fails:     *)
(* `fault`), and then db is the store unchanged.                           *)
(***************************************************************************)
Sql(ok, d, i) == [ok |-> ok, db |-> d, id |-> i]

\* INSERT INTO authors (name) VALUES (?)
InsertAuthor(d, name, fault) ==
    LET v == TextAffinity(name)
        i == NextRowid(d.authors)
    IN  IF fault \/ ~NotNull(v) \/ ~NameUnique(d.authors, v, NoneId)
        THEN Sql(FALSE, d, NoneId)
        ELSE Sql(TRUE, [d EXCEPT !.authors = Put(@, i, [name |-> v])], i)

\* UPDATE authors SET name = ? WHERE id = ?
UpdateAuthor(d, name, id, fault) ==
    LET v == TextAffinity(name)
    IN  IF fault THEN Sql(FALSE, d, id)
        ELSE IF id \notin DOMAIN d.authors THEN Sql(TRUE, d, id)
        ELSE IF ~NotNull(v) \/ ~NameUnique(d.authors, v, id) THEN Sql(FALSE, d, id)
        ELSE Sql(TRUE, [d EXCEPT !.authors = Put(@, id, [name |-> v])], id)

\* ids of the articles whose column `col` references id
Referencing(d, col, id) == {a \in DOMAIN d.articles : d.articles[a][col] = id}

\* DELETE FROM authors WHERE id = ?
DeleteAuthor(d, id, fault) ==
    IF fault THEN Sql(FALSE, d, id)
    ELSE Sql(TRUE,
             [d EXCEPT !.authors = Drop(@, {id}),
                       !.articles = IF foreign_keys
                                    THEN Drop(@, Referencing(d, "author_id", id))
                                    ELSE @],
             id)

(***************************************************************************)
(* Author                                                                  *)
(***************************************************************************)
\* Author(name, id): [raised, obj]
Author_init(name, id) ==
    IF AuthorNameOk(name)
    THEN [raised |-> FALSE, obj |-> [id |-> id, name |-> name]]
    ELSE [raised |-> TRUE, obj |-> NoAuthor]

\* Author._create_instance(row)
Author_create_instance(id, row) == Author_init(row.name, id)

\* faulty variant: only the engine's failures are caught, so a constraint failure
\* (sqlite3.IntegrityError) leaves create as an exception
Author_create_uncaught(d, name, fault) ==
    LET ins == InsertAuthor(d, name, fault)
        new == Author_init(name, ins.id)
    IN  IF ~ins.ok THEN Res(d, NoAuthor, IF fault THEN "error" ELSE "raise")
        ELSE IF new.raised THEN Res(ins.db, NoAuthor, "error")
        ELSE Res(ins.db, new.obj, "ok")

\* Author.create(name)
Author_create(d, name, fault) ==
    LET ins == InsertAuthor(d, name, fault)
        new == Author_init(name, ins.id)
    IN  IF ~ins.ok THEN Res(d, NoAuthor, "error")
        ELSE IF new.raised THEN Res(ins.db, NoAuthor, "error")
        ELSE Res(ins.db, new.obj, "ok")

\* faulty variant: the statement is INSERT OR REPLACE INTO authors (id, name),
\* which puts the row back when it is gone
Author_update_upserts(d, self, fault) ==
    IF self.id # NoneId
    THEN LET v == TextAffinity(self.name)
         IN  IF fault \/ ~NotNull(v) \/ ~NameUnique(d.authors, v, self.id)
             THEN Res(d, self, "error")
             ELSE Res([d EXCEPT !.authors = Put(@, self.id, [name |-> v])],
                      self, "ok")
    ELSE Res(d, self, "noop")

\* Author.update(self)
Author_update(d, self, fault) ==
    IF self.id # NoneId
    THEN LET upd == UpdateAuthor(d, self.name, self.id, fault)
         IN  IF upd.ok THEN Res(upd.db, self, "ok") ELSE Res(d, self, "error")
    ELSE Res(d, self, "noop")

\* Author.save(self)
Author_save(d, self, fault) ==
    IF self.id = NoneId
    THEN LET ins == InsertAuthor(d, self.name, fault)
         IN  IF ins.ok THEN Res(ins.db, [self EXCEPT !.id = ins.id], "ok")
             ELSE Res(d, self, "error")
    ELSE Author_update(d, self, fault)

\* faulty variant: the id is invalidated after the try block, failed delete or not
Author_delete_always_invalidates(d, self, fault) ==
    IF self.id # NoneId
    THEN LET del == DeleteAuthor(d, self.id, fault)
         IN  IF del.ok THEN Res(del.db, [self EXCEPT !.id = NoneId], "ok")
             ELSE Res(d, [self EXCEPT !.id = NoneId], "error")
    ELSE Res(d, self, "noop")

\* Author.delete(self)
Author_delete(d, self, fault) ==
    IF self.id # NoneId
    THEN LET del == DeleteAuthor(d, self.id, fault)
         IN  IF del.ok THEN Res(del.db, [self EXCEPT !.id = NoneId], "ok")
             ELSE Res(d, self, "error")
    ELSE Res(d, self, "noop")

\* faulty variant: the setter assigns the field and does not call update()
Author_set_name_memory_only(d, self, value, fault) ==
    IF ~AuthorNameOk(value) THEN Res(d, self, "raise")
    ELSE Res(d, [self EXCEPT !.name = value], "ok")

\* Author.name = value
Author_set_name(d, self, value, fault) ==
    IF ~AuthorNameOk(value) THEN Res(d, self, "raise")
    ELSE LET upd == Author_update(d, [self EXCEPT !.name = value], fault)
         IN  Res(upd.db, upd.obj, upd.outcome)

\* Author.find_by_id(author_id)
Author_find_by_id(d, author_id) ==
    IF author_id \in DOMAIN d.authors
    THEN LET new == Author_create_instance(author_id, d.authors[author_id])
         IN  IF new.raised THEN Res(d, NoAuthor, "raise") ELSE Res(d, new.obj, "ok")
    ELSE Res(d, NoAuthor, "null")

(***************************************************************************)
(* Magazine                                                                *)
(***************************************************************************)
\* INSERT INTO magazines (name, category) VALUES (?, ?)
InsertMagazine(d, name, category, fault) ==
    LET n == TextAffinity(name)
        c == TextAffinity(category)
        i == NextRowid(d.magazines)
    IN  IF fault \/ ~NotNull(n) \/ ~NotNull(c) \/ ~NameUnique(d.magazines, n, NoneId)
        THEN Sql(FALSE, d, NoneId)
        ELSE Sql(TRUE, [d EXCEPT !.magazines = Put(@, i, [name |-> n, category |-> c])], i)

\* UPDATE magazines SET name = ?, category = ? WHERE id = ?
UpdateMagazine(d, name, category, id, fault) ==
    LET n == TextAffinity(name)
        c == TextAffinity(category)
    IN  IF fault THEN Sql(FALSE, d, id)
        ELSE IF id \notin DOMAIN d.magazines THEN Sql(TRUE, d, id)
        ELSE IF ~NotNull(n) \/ ~NotNull(c) \/ ~NameUnique(d.magazines, n, id)
        THEN Sql(FALSE, d, id)
        ELSE Sql(TRUE, [d EXCEPT !.magazines = Put(@, id, [name |-> n, category |-> c])], id)

\* DELETE FROM magazines WHERE id = ?
DeleteMagazine(d, id, fault) ==
    IF fault THEN Sql(FALSE, d, id)
    ELSE Sql(TRUE,
             [d EXCEPT !.magazines = Drop(@, {id}),
                       !.articles = IF foreign_keys
                                    THEN Drop(@, Referencing(d, "magazine_id", id))
                                    ELSE @],
             id)

\* Magazine._validate_name_category(self)
Magazine_validate_name_category(name, category) == MagazineNameOk(name) /\ CategoryOk(category)

\* Magazine(name, category, id): [raised, obj]
Magazine_init(name, category, id) ==
    IF Magazine_validate_name_category(name, category)
    THEN [raised |-> FALSE, obj |-> [id |-> id, name |-> name, category |-> category]]
    ELSE [raised |-> TRUE, obj |-> NoMagazine]

\* Magazine._create_instance(row)
Magazine_create_instance(id, row) == Magazine_init(row.name, row.category, id)

\* Magazine.create(name, category)
Magazine_create(d, name, category, fault) ==
    LET ins == InsertMagazine(d, name, category, fault)
        new == Magazine_init(name, category, ins.id)
    IN  IF ~ins.ok THEN Res(d, NoMagazine, "error")
        ELSE IF new.raised THEN Res(ins.db, NoMagazine, "error")
        ELSE Res(ins.db, new.obj, "ok")

\* faulty variant: the UPDATE sets the category column only, so the name
\* column keeps what is stored
Magazine_update_category_only(d, self, fault) ==
    IF self.id # NoneId
    THEN LET stored == IF self.id \in DOMAIN d.magazines
                       THEN d.magazines[self.id].name ELSE self.name
             upd == UpdateMagazine(d, stored, self.category, self.id, fault)
         IN  IF upd.ok THEN Res(upd.db, self, "ok") ELSE Res(d, self, "error")
    ELSE Res(d, self, "noop")

\* Magazine.update(self)
Magazine_update(d, self, fault) ==
    IF self.id # NoneId
    THEN LET upd == UpdateMagazine(d, self.name, self.category, self.id, fault)
         IN  IF upd.ok THEN Res(upd.db, self, "ok") ELSE Res(d, self, "error")
    ELSE Res(d, self, "noop")

\* faulty variant: the INSERT binds (category, name) to (name, category)
Magazine_save_swapped(d, self, fault) ==
    IF self.id = NoneId
    THEN LET ins == InsertMagazine(d, self.category, self.name, fault)
         IN  IF ins.ok THEN Res(ins.db, [self EXCEPT !.id = ins.id], "ok")
             ELSE Res(d, self, "error")
    ELSE Magazine_update(d, self, fault)

\* Magazine.save(self)
Magazine_save(d, self, fault) ==
    IF self.id = NoneId
    THEN LET ins == InsertMagazine(d, self.name, self.category, fault)
         IN  IF ins.ok THEN Res(ins.db, [self EXCEPT !.id = ins.id], "ok")
             ELSE Res(d, self, "error")
    ELSE Magazine_update(d, self, fault)

\* faulty variant: the id is invalidated before the DELETE is executed, so a failed
\* delete leaves the instance without its id
Magazine_delete_invalidates_first(d, self, fault) ==
    IF self.id # NoneId
    THEN LET del == DeleteMagazine(d, self.id, fault)
         IN  IF del.ok THEN Res(del.db, [self EXCEPT !.id = NoneId], "ok")
             ELSE Res(d, [self EXCEPT !.id = NoneId], "error")
    ELSE Res(d, self, "noop")

\* Magazine.delete(self)
Magazine_delete(d, self, fault) ==
    IF self.id # NoneId
    THEN LET del == DeleteMagazine(d, self.id, fault)
         IN  IF del.ok THEN Res(del.db, [self EXCEPT !.id = NoneId], "ok")
             ELSE Res(d, self, "error")
    ELSE Res(d, self, "noop")

\* faulty variant: the setter assigns the field before it validates the value
Magazine_set_name_assigns_first(d, self, value, fault) ==
    IF ~MagazineNameOk(value) THEN Res(d, [self EXCEPT !.name = value], "raise")
    ELSE Magazine_update(d, [self EXCEPT !.name = value], fault)

\* Magazine.name = value
Magazine_set_name(d, self, value, fault) ==
    IF ~MagazineNameOk(value) THEN Res(d, self, "raise")
    ELSE Magazine_update(d, [self EXCEPT !.name = value], fault)

\* faulty variant: the setter persists with save(), which inserts an instance
\* that has no id
Magazine_set_category_saves(d, self, value, fault) ==
    IF ~CategoryOk(value) THEN Res(d, self, "raise")
    ELSE Magazine_save(d, [self EXCEPT !.category = value], fault)

\* Magazine.category = value
Magazine_set_category(d, self, value, fault) ==
    IF ~CategoryOk(value) THEN Res(d, self, "raise")
    ELSE Magazine_update(d, [self EXCEPT !.category = value], fault)

\* Magazine.find_by_id(magazine_id)
Magazine_find_by_id(d, magazine_id) ==
    IF magazine_id \in DOMAIN d.magazines
    THEN LET new == Magazine_create_instance(magazine_id, d.magazines[magazine_id])
         IN  IF new.raised THEN Res(d, NoMagazine, "raise") ELSE Res(d, new.obj, "ok")
    ELSE Res(d, NoMagazine, "null")

(***************************************************************************)
(* Article                                                                 *)
(***************************************************************************)
\* the foreign keys of an articles row resolve (checked only when enforced)
ForeignKeysOk(d, author_id, magazine_id) ==
    foreign_keys => (author_id \in DOMAIN d.authors /\ magazine_id \in DOMAIN d.magazines)

\* INSERT INTO articles (title, author_id, magazine_id) VALUES (?, ?, ?)
InsertArticle(d, title, author_id, magazine_id, fault) ==
    LET t == TextAffinity(title)
        i == NextRowid(d.articles)
    IN  IF \/ fault
           \/ ~NotNull(t) \/ author_id = NoneId \/ magazine_id = NoneId
           \/ ~ForeignKeysOk(d, author_id, magazine_id)
        THEN Sql(FALSE, d, NoneId)
        ELSE Sql(TRUE,
                 [d EXCEPT !.articles =
                     Put(@, i, [title |-> t, author_id |-> author_id,
                                magazine_id |-> magazine_id])],
                 i)

\* UPDATE articles SET title = ?, author_id = ?, magazine_id = ? WHERE id = ?
UpdateArticle(d, title, author_id, magazine_id, id, fault) ==
    LET t == TextAffinity(title)
    IN  IF fault THEN Sql(FALSE, d, id)
        ELSE IF id \notin DOMAIN d.articles THEN Sql(TRUE, d, id)
        ELSE IF \/ ~NotNull(t) \/ author_id = NoneId \/ magazine_id = NoneId
                \/ ~ForeignKeysOk(d, author_id, magazine_id)
        THEN Sql(FALSE, d, id)
        ELSE Sql(TRUE,
                 [d EXCEPT !.articles =
                     Put(@, id, [title |-> t, author_id |-> author_id,
                                 magazine_id |-> magazine_id])],
                 id)

\* DELETE FROM articles WHERE id = ?
DeleteArticle(d, id, fault) ==
    IF fault THEN Sql(FALSE, d, id)
    ELSE Sql(TRUE, [d EXCEPT !.articles = Drop(@, {id})], id)

\* Article._validate_title(self)
Article_validate_title(title) == TitleOk(title)

\* Article(title, author_id, magazine_id, id): [raised, obj]
Article_init(title, author_id, magazine_id, id) ==
    IF Article_validate_title(title)
    THEN [raised |-> FALSE,
          obj |-> [id |-> id, title |-> title, author_id |-> author_id,
                   magazine_id |-> magazine_id]]
    ELSE [raised |-> TRUE, obj |-> NoArticle]

\* Article._create_instance(row)
Article_create_instance(id, row) == Article_init(row.title, row.author_id, row.magazine_id, id)

\* Article.create(title, author_id, magazine_id)
Article_create(d, title, author_id, magazine_id, fault) ==
    LET ins == InsertArticle(d, title, author_id, magazine_id, fault)
        new == Article_init(title, author_id, magazine_id, ins.id)
    IN  IF ~ins.ok THEN Res(d, NoArticle, "error")
        ELSE IF new.raised THEN Res(ins.db, NoArticle, "error")
        ELSE Res(ins.db, new.obj, "ok")

\* Article.update(self)
Article_update(d, self, fault) ==
    IF self.id # NoneId
    THEN LET upd == UpdateArticle(d, self.title, self.author_id, self.magazine_id,
                                  self.id, fault)
         IN  IF upd.ok THEN Res(upd.db, self, "ok") ELSE Res(d, self, "error")
    ELSE Res(d, self, "noop")

\* faulty variant: save() inserts whether or not the instance has an id
Article_save_always_inserts(d, self, fault) ==
    LET ins == InsertArticle(d, self.title, self.author_id, self.magazine_id, fault)
    IN  IF ins.ok THEN Res(ins.db, [self EXCEPT !.id = ins.id], "ok")
        ELSE Res(d, self, "error")

\* Article.save(self)
Article_save(d, self, fault) ==
    IF self.id = NoneId
    THEN LET ins == InsertArticle(d, self.title, self.author_id, self.magazine_id, fault)
         IN  IF ins.ok THEN Res(ins.db, [self EXCEPT !.id = ins.id], "ok")
             ELSE Res(d, self, "error")
    ELSE Article_update(d, self, fault)

\* Article.delete(self)
Article_delete(d, self, fault) ==
    IF self.id # NoneId
    THEN LET del == DeleteArticle(d, self.id, fault)
         IN  IF del.ok THEN Res(del.db, [self EXCEPT !.id = NoneId], "ok")
             ELSE Res(d, self, "error")
    ELSE Res(d, self, "noop")

\* Article.title = value
Article_set_title(d, self, value, fault) ==
    IF ~TitleOk(value) THEN Res(d, self, "raise")
    ELSE Article_update(d, [self EXCEPT !.title = value], fault)

\* Article.find_by_id(article_id)
Article_find_by_id(d, article_id) ==
    IF article_id \in DOMAIN d.articles
    THEN LET new == Article_create_instance(article_id, d.articles[article_id])
         IN  IF new.raised THEN Res(d, NoArticle, "raise") ELSE Res(d, new.obj, "ok")
    ELSE Res(d, NoArticle, "null")

(***************************************************************************)
(* Author.add_article                                                      *)
(***************************************************************************)
\* isinstance(x, Magazine)
IsMagazine(x) == DOMAIN x = {"id", "name", "category"}

\* the elements of a finite set of integers, ascending
RECURSIVE Ascending(_)
Ascending(S) ==
    IF S = {} THEN <<>>
    ELSE LET m == CHOOSE x \in S : \A y \in S : x <= y
         IN  <<m>> \o Ascending(S \ {m})

\* [Article._create_instance(row) for row in rows], rows being the articles
\* of the ids in `ids`, in the order of the table: obj is the list returned
Article_instances(d, ids) ==
    IF \E a \in ids : Article_create_instance(a, d.articles[a]).raised
    THEN Res(d, <<>>, "raise")
    ELSE Res(d, [k \in 1 .. Cardinality(ids) |->
                    Article_create_instance(Ascending(ids)[k],
                                            d.articles[Ascending(ids)[k]]).obj],
             "ok")

\* Author.articles(self)
Author_articles(d, self) == Article_instances(d, Referencing(d, "author_id", self.id))

\* Magazine.articles(self)
Magazine_articles(d, self) == Article_instances(d, Referencing(d, "magazine_id", self.id))

\* faulty variant: the ids are passed to Article.create in the wrong order
Author_add_article_swapped_ids(d, self, magazine, title, fault) ==
    IF ~IsMagazine(magazine) THEN Res(d, NoArticle, "raise")
    ELSE Article_create(d, title, magazine.id, self.id, fault)

\* Author.add_article(self, magazine, title): obj is the Article returned
Author_add_article(d, self, magazine, title, fault) ==
    IF ~IsMagazine(magazine) THEN Res(d, NoArticle, "raise")
    ELSE Article_create(d, title, self.id, magazine.id, fault)

(***************************************************************************)
(* Relationship and aggregate queries.  A query that returns entities      *)
(* builds each with _create_instance, which raises when the row does not   *)
(* pass the validation of the constructor.                                 *)
(***************************************************************************)
\* [Author._create_instance(row) for row in rows], rows being the authors of
\* the ids in `ids`, in the order of the table
Author_instances(d, ids) ==
    IF \E a \in ids : Author_create_instance(a, d.authors[a]).raised
    THEN Res(d, <<>>, "raise")
    ELSE Res(d, [k \in 1 .. Cardinality(ids) |->
                    Author_create_instance(Ascending(ids)[k],
                                           d.authors[Ascending(ids)[k]]).obj],
             "ok")

\* [Magazine._create_instance(row) for row in rows], likewise
Magazine_instances(d, ids) ==
    IF \E m \in ids : Magazine_create_instance(m, d.magazines[m]).raised
    THEN Res(d, <<>>, "raise")
    ELSE Res(d, [k \in 1 .. Cardinality(ids) |->
                    Magazine_create_instance(Ascending(ids)[k],
                                             d.magazines[Ascending(ids)[k]]).obj],
             "ok")

\* the articles rows with the given author_id and magazine_id
ArticlesBy(d, author_id, magazine_id) ==
    Referencing(d, "author_id", author_id) \cap Referencing(d, "magazine_id", magazine_id)

\* faulty variant: HAVING COUNT(art.id) >= 2
Magazine_contributing_authors_two(d, self) ==
    Author_instances(d, {a \in DOMAIN d.authors :
                            Cardinality(ArticlesBy(d, a, self.id)) >= 2})

\* Magazine.contributing_authors(self): authors JOIN articles WHERE
\* magazine_id = ? GROUP BY a.id HAVING COUNT(art.id) > 2
Magazine_contributing_authors(d, self) ==
    Author_instances(d, {a \in DOMAIN d.authors :
                            Cardinality(ArticlesBy(d, a, self.id)) > 2})

\* the rows ORDER BY article_count DESC may put first: those of the highest
\* count (the order among equal counts is the engine's)
First(ids, count) == {m \in ids : \A n \in ids : count[n] <= count[m]}

\* magazines LEFT JOIN articles GROUP BY m.id ORDER BY article_count DESC:
\* the rows LIMIT 1 may keep
TopPublisherRows(d) ==
    LET article_count == [m \in DOMAIN d.magazines |->
                             Cardinality(Referencing(d, "magazine_id", m))]
    IN  First(DOMAIN d.magazines, article_count)

\* Magazine.top_publisher(): `row` is the row fetchone() returns, NoneId when
\* the query has no row
Magazine_top_publisher(d, row) ==
    IF row = NoneId THEN Res(d, NoMagazine, "null")
    ELSE LET new == Magazine_create_instance(row, d.magazines[row])
         IN  IF new.raised THEN Res(d, NoMagazine, "raise") ELSE Res(d, new.obj, "ok")

\* authors JOIN articles GROUP BY a.id ORDER BY article_count DESC: the rows
\* LIMIT 1 may keep
MostArticlesRows(d) ==
    LET article_count == [a \in DOMAIN d.authors |->
                             Cardinality(Referencing(d, "author_id", a))]
    IN  First({a \in DOMAIN d.authors : article_count[a] > 0}, article_count)

\* Article.find_author_with_most_articles()
Article_find_author_with_most_articles(d, row) ==
    IF row = NoneId THEN Res(d, NoAuthor, "null")
    ELSE LET new == Author_create_instance(row, d.authors[row])
         IN  IF new.raised THEN Res(d, NoAuthor, "raise") ELSE Res(d, new.obj, "ok")

\* the row fetchone() may return out of `rows`
Fetchone(rows) == IF rows = {} THEN {NoneId} ELSE rows

\* Article.magazines_with_multiple_authors(): magazines JOIN articles
\* GROUP BY m.id HAVING COUNT(DISTINCT a.author_id) >= 2
Article_magazines_with_multiple_authors(d) ==
    Magazine_instances(d,
        {m \in DOMAIN d.magazines :
            Cardinality({d.articles[a].author_id :
                            a \in Referencing(d, "magazine_id", m)}) >= 2})

\* the strs of the model in the order of Python's < on str
StrOrder == <<"", "Ca", "Cb">>

\* x < y on str
StrLess(x, y) ==
    \E i, j \in DOMAIN StrOrder : i < j /\ StrOrder[i] = x.v /\ StrOrder[j] = y.v

\* sorted(list(S)) of a set of str
RECURSIVE Sorted(_)
Sorted(S) ==
    IF S = {} THEN <<>>
    ELSE LET m == CHOOSE x \in S : \A y \in S \ {x} : StrLess(x, y)
         IN  <<m>> \o Sorted(S \ {m})

\* SELECT DISTINCT m.category FROM magazines m JOIN articles a
\* ON m.id = a.magazine_id WHERE a.author_id = ?: the rows, in table order
TopicRows(d, author_id) ==
    LET ids == {m \in DOMAIN d.magazines : ArticlesBy(d, author_id, m) # {}}
    IN  [k \in 1 .. Cardinality(ids) |-> d.magazines[Ascending(ids)[k]].category]

\* faulty variant: the rows are returned as fetched, not as a sorted set
Author_topic_areas_as_fetched(d, self) ==
    Res(d, TopicRows(d, self.id), "ok")

\* Author.topic_areas(self)
Author_topic_areas(d, self) ==
    LET rows == TopicRows(d, self.id)
    IN  Res(d, Sorted({rows[k] : k \in DOMAIN rows}), "ok")

(***************************************************************************)
(* Arguments the client passes.                                            *)
(***************************************************************************)
AuthorNames == {PyStr("Al"), PyStr("Bo"), PyStr(""), PyInt("5"), NoneVal}

MagazineNames == {PyStr("Mg"), PyStr("Nw"), PyStr("M"), PyStr(Rep("x", 17))}

Categories == {PyStr("Ca"), PyStr("Cb"), PyStr("")}

Titles == {PyStr("Ti"), PyStr("Tj"), PyStr(Rep("x", 51))}

\* what a client may pass as the magazine of add_article: a Magazine instance
\* it holds, or something that is no Magazine
MagazineArgs == {magazine_objs[j] : j \in DOMAIN magazine_objs} \cup {PyStr("not a magazine")}

\* ids a client may ask for: those in use, those used before, and the next
IdInputs(tbl) == 1 .. NextRowid(tbl)

\* ids a client may pass as a foreign key
RefInputs(tbl) == IdInputs(tbl)

\* the record of a call: the method, its class, the index of the instance it
\* was called on (or of the entity it returned; 0 if none), its arguments, the
\* id involved (the instance's id before the call, the id asked for, or the id
\* of the returned entity), whether the store failed under it, and its outcome
Call(op, cls, self, args, id, fault, outcome) ==
    [op |-> op, cls |-> cls, self |-> self, args |-> args, id |-> id,
     fault |-> fault, outcome |-> outcome]

\* the call being executed statement by statement: the frames of its call
\* stack (none between calls), whether the instance it is called on has no
\* id, whether it raised before it reached the store, whether an exception
\* is propagating, the connections it has acquired, and the connections
\* acquired since the start
NoRun == [stack |-> <<>>, shape |-> "none", id_null |-> FALSE, early |-> FALSE,
          exc |-> FALSE, acquired |-> 0, handles |-> 0]

Init ==
    /\ db = EmptyDb
    /\ author_objs = <<>>
    /\ magazine_objs = <<>>
    /\ article_objs = <<>>
    /\ last = Call("none", "none", 0, <<>>, NoneId, FALSE, "ok")
    /\ calls = 0
    /\ conns = {}
    /\ run = NoRun

\* every call is counted; a call runs from its first statement to its return
\* in one step, so no connection is open before or after it
Tick == calls' = calls + 1 /\ UNCHANGED <<conns, run>>

(***************************************************************************)
(* Calls on Author                                                         *)
(***************************************************************************)
\* a = Author(name)
AuthorNew(name) ==
    LET r == Author_init(name, NoneId)
    IN  /\ Tick
        /\ author_objs' = IF r.raised THEN author_objs ELSE Append(author_objs, r.obj)
        /\ last' = Call("init", "Author", IF r.raised THEN 0 ELSE Len(author_objs) + 1,
                        <<name>>, NoneId, FALSE, IF r.raised THEN "raise" ELSE "ok")
        /\ UNCHANGED <<db, magazine_objs, article_objs>>

\* a = Author.create(name)
AuthorCreate(name, fault) ==
    LET r == Author_create(db, name, fault)
    IN  /\ Tick
        /\ db' = r.db
        /\ author_objs' = IF r.outcome = "ok" THEN Append(author_objs, r.obj)
                          ELSE author_objs
        /\ last' = Call("create", "Author",
                        IF r.outcome = "ok" THEN Len(author_objs) + 1 ELSE 0,
                        <<name>>, r.obj.id, fault, r.outcome)
        /\ UNCHANGED <<magazine_objs, article_objs>>

\* the instance method `m` called on the i-th Author instance
AuthorMethod(op, i, args, fault, r) ==
    /\ Tick
    /\ db' = r.db
    /\ author_objs' = [author_objs EXCEPT ![i] = r.obj]
    /\ last' = Call(op, "Author", i, args, author_objs[i].id, fault, r.outcome)
    /\ UNCHANGED <<magazine_objs, article_objs>>

AuthorSave(i, fault) == AuthorMethod("save", i, <<>>, fault, Author_save(db, author_objs[i], fault))

AuthorUpdate(i, fault) == AuthorMethod("update", i, <<>>, fault, Author_update(db, author_objs[i], fault))

AuthorDelete(i, fault) == AuthorMethod("delete", i, <<>>, fault, Author_delete(db, author_objs[i], fault))

AuthorSetName(i, value, fault) ==
    AuthorMethod("set_name", i, <<value>>, fault, Author_set_name(db, author_objs[i], value, fault))

\* a = Author.find_by_id(k)
AuthorFindById(k) ==
    LET r == Author_find_by_id(db, k)
    IN  /\ Tick
        /\ author_objs' = IF r.outcome = "ok" THEN Append(author_objs, r.obj)
                          ELSE author_objs
        /\ last' = Call("find_by_id", "Author",
                        IF r.outcome = "ok" THEN Len(author_objs) + 1 ELSE 0,
                        <<>>, k, FALSE, r.outcome)
        /\ UNCHANGED <<db, magazine_objs, article_objs>>

\* art = a.add_article(magazine, title)
AuthorAddArticle(i, magazine, title, fault) ==
    LET r == Author_add_article(db, author_objs[i], magazine, title, fault)
    IN  /\ Tick
        /\ db' = r.db
        /\ article_objs' = IF r.outcome = "ok" THEN Append(article_objs, r.obj)
                           ELSE article_objs
        /\ last' = Call("add_article", "Author", i, <<magazine, title>>,
                        author_objs[i].id, fault, r.outcome)
        /\ UNCHANGED <<author_objs, magazine_objs>>

NextAuthor ==
    \/ \E name \in AuthorNames : AuthorNew(name)
    \/ \E name \in AuthorNames, fault \in BOOLEAN : AuthorCreate(name, fault)
    \/ \E i \in DOMAIN author_objs, fault \in BOOLEAN : AuthorSave(i, fault)
    \/ \E i \in DOMAIN author_objs, fault \in BOOLEAN : AuthorUpdate(i, fault)
    \/ \E i \in DOMAIN author_objs, fault \in BOOLEAN : AuthorDelete(i, fault)
    \/ \E i \in DOMAIN author_objs, value \in AuthorNames, fault \in BOOLEAN :
          AuthorSetName(i, value, fault)
    \/ \E k \in IdInputs(db.authors) : AuthorFindById(k)
    \/ \E i \in DOMAIN author_objs, magazine \in MagazineArgs, title \in Titles,
          fault \in BOOLEAN : AuthorAddArticle(i, magazine, title, fault)

(***************************************************************************)
(* Calls on Magazine                                                       *)
(***************************************************************************)
\* m = Magazine(name, category)
MagazineNew(name, category) ==
    LET r == Magazine_init(name, category, NoneId)
    IN  /\ Tick
        /\ magazine_objs' = IF r.raised THEN magazine_objs
                            ELSE Append(magazine_objs, r.obj)
        /\ last' = Call("init", "Magazine",
                        IF r.raised THEN 0 ELSE Len(magazine_objs) + 1,
                        <<name, category>>, NoneId, FALSE, IF r.raised THEN "raise" ELSE "ok")
        /\ UNCHANGED <<db, author_objs, article_objs>>

\* m = Magazine.create(name, category)
MagazineCreate(name, category, fault) ==
    LET r == Magazine_create(db, name, category, fault)
    IN  /\ Tick
        /\ db' = r.db
        /\ magazine_objs' = IF r.outcome = "ok" THEN Append(magazine_objs, r.obj)
                            ELSE magazine_objs
        /\ last' = Call("create", "Magazine",
                        IF r.outcome = "ok" THEN Len(magazine_objs) + 1 ELSE 0,
                        <<name, category>>, r.obj.id, fault, r.outcome)
        /\ UNCHANGED <<author_objs, article_objs>>

MagazineMethod(op, i, args, fault, r) ==
    /\ Tick
    /\ db' = r.db
    /\ magazine_objs' = [magazine_objs EXCEPT ![i] = r.obj]
    /\ last' = Call(op, "Magazine", i, args, magazine_objs[i].id, fault, r.outcome)
    /\ UNCHANGED <<author_objs, article_objs>>

MagazineSave(i, fault) ==
    MagazineMethod("save", i, <<>>, fault, Magazine_save(db, magazine_objs[i], fault))

MagazineUpdate(i, fault) ==
    MagazineMethod("update", i, <<>>, fault, Magazine_update(db, magazine_objs[i], fault))

MagazineDelete(i, fault) ==
    MagazineMethod("delete", i, <<>>, fault, Magazine_delete(db, magazine_objs[i], fault))

MagazineSetName(i, value, fault) ==
    MagazineMethod("set_name", i, <<value>>, fault,
                   Magazine_set_name(db, magazine_objs[i], value, fault))

MagazineSetCategory(i, value, fault) ==
    MagazineMethod("set_category", i, <<value>>, fault,
                   Magazine_set_category(db, magazine_objs[i], value, fault))

\* m = Magazine.find_by_id(k)
MagazineFindById(k) ==
    LET r == Magazine_find_by_id(db, k)
    IN  /\ Tick
        /\ magazine_objs' = IF r.outcome = "ok" THEN Append(magazine_objs, r.obj)
                            ELSE magazine_objs
        /\ last' = Call("find_by_id", "Magazine",
                        IF r.outcome = "ok" THEN Len(magazine_objs) + 1 ELSE 0,
                        <<>>, k, FALSE, r.outcome)
        /\ UNCHANGED <<db, author_objs, article_objs>>

NextMagazine ==
    \/ \E name \in MagazineNames, category \in Categories : MagazineNew(name, category)
    \/ \E name \in MagazineNames, category \in Categories, fault \in BOOLEAN :
          MagazineCreate(name, category, fault)
    \/ \E i \in DOMAIN magazine_objs, fault \in BOOLEAN : MagazineSave(i, fault)
    \/ \E i \in DOMAIN magazine_objs, fault \in BOOLEAN : MagazineUpdate(i, fault)
    \/ \E i \in DOMAIN magazine_objs, fault \in BOOLEAN : MagazineDelete(i, fault)
    \/ \E i \in DOMAIN magazine_objs, value \in MagazineNames, fault \in BOOLEAN :
          MagazineSetName(i, value, fault)
    \/ \E i \in DOMAIN magazine_objs, value \in Categories, fault \in BOOLEAN :
          MagazineSetCategory(i, value, fault)
    \/ \E k \in IdInputs(db.magazines) : MagazineFindById(k)

(***************************************************************************)
(* Calls on Article                                                        *)
(***************************************************************************)
\* a = Article(title, author_id, magazine_id)
ArticleNew(title, author_id, magazine_id) ==
    LET r == Article_init(title, author_id, magazine_id, NoneId)
    IN  /\ Tick
        /\ article_objs' = IF r.raised THEN article_objs ELSE Append(article_objs, r.obj)
        /\ last' = Call("init", "Article",
                        IF r.raised THEN 0 ELSE Len(article_objs) + 1,
                        <<title, author_id, magazine_id>>, NoneId, FALSE, IF r.raised THEN "raise" ELSE "ok")
        /\ UNCHANGED <<db, author_objs, magazine_objs>>

\* a = Article.create(title, author_id, magazine_id)
ArticleCreate(title, author_id, magazine_id, fault) ==
    LET r == Article_create(db, title, author_id, magazine_id, fault)
    IN  /\ Tick
        /\ db' = r.db
        /\ article_objs' = IF r.outcome = "ok" THEN Append(article_objs, r.obj)
                           ELSE article_objs
        /\ last' = Call("create", "Article",
                        IF r.outcome = "ok" THEN Len(article_objs) + 1 ELSE 0,
                        <<title, author_id, magazine_id>>, r.obj.id, fault, r.outcome)
        /\ UNCHANGED <<author_objs, magazine_objs>>

ArticleMethod(op, i, args, fault, r) ==
    /\ Tick
    /\ db' = r.db
    /\ article_objs' = [article_objs EXCEPT ![i] = r.obj]
    /\ last' = Call(op, "Article", i, args, article_objs[i].id, fault, r.outcome)
    /\ UNCHANGED <<author_objs, magazine_objs>>

ArticleSave(i, fault) ==
    ArticleMethod("save", i, <<>>, fault, Article_save(db, article_objs[i], fault))

ArticleUpdate(i, fault) ==
    ArticleMethod("update", i, <<>>, fault, Article_update(db, article_objs[i], fault))

ArticleDelete(i, fault) ==
    ArticleMethod("delete", i, <<>>, fault, Article_delete(db, article_objs[i], fault))

ArticleSetTitle(i, value, fault) ==
    ArticleMethod("set_title", i, <<value>>, fault,
                  Article_set_title(db, article_objs[i], value, fault))

\* a = Article.find_by_id(k)
ArticleFindById(k) ==
    LET r == Article_find_by_id(db, k)
    IN  /\ Tick
        /\ article_objs' = IF r.outcome = "ok" THEN Append(article_objs, r.obj)
                           ELSE article_objs
        /\ last' = Call("find_by_id", "Article",
                        IF r.outcome = "ok" THEN Len(article_objs) + 1 ELSE 0,
                        <<>>, k, FALSE, r.outcome)
        /\ UNCHANGED <<db, author_objs, magazine_objs>>

NextArticle ==
    \/ \E title \in Titles, author_id \in RefInputs(db.authors),
          magazine_id \in RefInputs(db.magazines) :
          ArticleNew(title, author_id, magazine_id)
    \/ \E title \in Titles, author_id \in RefInputs(db.authors),
          magazine_id \in RefInputs(db.magazines), fault \in BOOLEAN :
          ArticleCreate(title, author_id, magazine_id, fault)
    \/ \E i \in DOMAIN article_objs, fault \in BOOLEAN : ArticleSave(i, fault)
    \/ \E i \in DOMAIN article_objs, fault \in BOOLEAN : ArticleUpdate(i, fault)
    \/ \E i \in DOMAIN article_objs, fault \in BOOLEAN : ArticleDelete(i, fault)
    \/ \E i \in DOMAIN article_objs, value \in Titles, fault \in BOOLEAN :
          ArticleSetTitle(i, value, fault)
    \/ \E k \in IdInputs(db.articles) : ArticleFindById(k)

Next == calls < MaxCalls /\ (NextAuthor \/ NextMagazine \/ NextArticle)

Spec == Init /\ [][Next]_vars

(***************************************************************************)
(* Reading the last call                                                   *)
(***************************************************************************)
\* the instances of a class, out of the three lists
ObjsOf(cls, authors, magazines, articles) ==
    CASE cls = "Author" -> authors
      [] cls = "Magazine" -> magazines
      [] cls = "Article" -> articles

Objs(cls) == ObjsOf(cls, author_objs, magazine_objs, article_objs)

\* cls.find_by_id(k) on store d
FindById(cls, d, k) ==
    CASE cls = "Author" -> Author_find_by_id(d, k)
      [] cls = "Magazine" -> Magazine_find_by_id(d, k)
      [] cls = "Article" -> Article_find_by_id(d, k)

\* the field values `args` pass the validation of cls
FieldsOk(cls, args) ==
    CASE cls = "Author" -> AuthorNameOk(args[1])
      [] cls = "Magazine" -> MagazineNameOk(args[1]) /\ CategoryOk(args[2])
      [] cls = "Article" -> TitleOk(args[1])

\* the entity of class cls with id k and the field values `args`
Entity(cls, k, args) ==
    CASE cls = "Author" -> [id |-> k, name |-> args[1]]
      [] cls = "Magazine" -> [id |-> k, name |-> args[1], category |-> args[2]]
      [] cls = "Article" -> [id |-> k, title |-> args[1], author_id |-> args[2],
                             magazine_id |-> args[3]]

\* the field values of an entity, in the order of the constructor's arguments
Fields(cls, o) ==
    CASE cls = "Author" -> <<o.name>>
      [] cls = "Magazine" -> <<o.name, o.category>>
      [] cls = "Article" -> <<o.title, o.author_id, o.magazine_id>>

\* the store refuses to insert a row of cls with these field values: the
\* engine fails, or a NOT NULL or UNIQUE constraint does
InsertRefused(cls, d, args, fault) ==
    \/ fault
    \/ CASE cls = "Author" ->
              \/ ~NotNull(args[1])
              \/ ~NameUnique(d.authors, TextAffinity(args[1]), NoneId)
         [] cls = "Magazine" ->
              \/ ~NotNull(args[1]) \/ ~NotNull(args[2])
              \/ ~NameUnique(d.magazines, TextAffinity(args[1]), NoneId)
         [] cls = "Article" ->
              ~NotNull(args[1]) \/ args[2] = NoneId \/ args[3] = NoneId

\* the store refuses the UPDATE that writes the fields of instance o of cls:
\* the engine fails, or the row exists and its new name is another row's
UpdateRefused(cls, d, o, fault) ==
    \/ fault
    \/ CASE cls = "Author" ->
              o.id \in DOMAIN d.authors
                  /\ ~NameUnique(d.authors, TextAffinity(o.name), o.id)
         [] cls = "Magazine" ->
              o.id \in DOMAIN d.magazines
                  /\ ~NameUnique(d.magazines, TextAffinity(o.name), o.id)
         [] cls = "Article" -> FALSE

\* the store refuses what save() of instance o executes
SaveRefused(cls, d, o, fault) ==
    IF o.id = NoneId THEN InsertRefused(cls, d, Fields(cls, o), fault)
    ELSE UpdateRefused(cls, d, o, fault)

(***************************************************************************)
(* C1: every row in storage satisfies the field constraints of its class   *)
(* (author name 1..255 chars, magazine name 2..16, category 1..20, article *)
(* title 1..50), whatever calls were made.                                 *)
(***************************************************************************)
C1_StoredFieldsValid ==
    /\ \A i \in DOMAIN db.authors : AuthorNameOk(db.authors[i].name)
    /\ \A i \in DOMAIN db.magazines :
          MagazineNameOk(db.magazines[i].name) /\ CategoryOk(db.magazines[i].category)
    /\ \A i \in DOMAIN db.articles : TitleOk(db.articles[i].title)

(***************************************************************************)
(* C2: create(...) called with a value that violates a field constraint    *)
(* raises the validation error to its caller.                              *)
(***************************************************************************)
C2_InvalidCreateRaises ==
    (last.op = "create" /\ ~FieldsOk(last.cls, last.args)) => last.outcome = "raise"

(***************************************************************************)
(* C3: after delete() succeeds on a persisted Author (Magazine) of id k,   *)
(* no Article row has author_id (magazine_id) k.                           *)
(***************************************************************************)
C3_DeleteCascades ==
    (last.op = "delete" /\ last.outcome = "ok" /\ last.id # NoneId) =>
        /\ last.cls = "Author" => Referencing(db, "author_id", last.id) = {}
        /\ last.cls = "Magazine" => Referencing(db, "magazine_id", last.id) = {}

(***************************************************************************)
(* C4: every Article row references an existing Author row and an          *)
(* existing Magazine row, in every reachable state.                        *)
(***************************************************************************)
C4_ReferentialIntegrity ==
    \A a \in DOMAIN db.articles :
        /\ db.articles[a].author_id \in DOMAIN db.authors
        /\ db.articles[a].magazine_id \in DOMAIN db.magazines

(***************************************************************************)
(* C5: Article.create with an author_id or magazine_id that matches no     *)
(* stored row returns None without raising and inserts no article.         *)
(***************************************************************************)
C5_UnresolvedCreateReturnsNone ==
    [][(/\ calls' # calls
        /\ last'.op = "create" /\ last'.cls = "Article"
        /\ \/ last'.args[2] \notin DOMAIN db.authors
           \/ last'.args[3] \notin DOMAIN db.magazines)
       => (last'.outcome = "error" /\ db'.articles = db.articles)]_vars

(***************************************************************************)
(* C6: when create(...), or the first save() of an instance, succeeds and  *)
(* yields an entity of id k, find_by_id(k) right after it returns an       *)
(* entity of id k whose fields are the values passed in.                   *)
(***************************************************************************)
C6_RoundTrip ==
    /\ (last.op = "create" /\ last.outcome = "ok") =>
          /\ last.id # NoneId
          /\ FieldsOk(last.cls, last.args)
          /\ Objs(last.cls)[last.self] = Entity(last.cls, last.id, last.args)
          /\ FindById(last.cls, db, last.id).outcome = "ok"
          /\ FindById(last.cls, db, last.id).obj = Entity(last.cls, last.id, last.args)
    /\ (last.op = "save" /\ last.id = NoneId /\ last.outcome = "ok") =>
          LET o == Objs(last.cls)[last.self]
          IN  /\ o.id # NoneId
              /\ FindById(last.cls, db, o.id).outcome = "ok"
              /\ FindById(last.cls, db, o.id).obj = o

C6_Witness ==
    /\ last.op = "save" /\ last.cls = "Magazine" /\ last.id = NoneId
    /\ last.outcome = "ok"
    /\ Cardinality(DOMAIN db.magazines) = 2

(***************************************************************************)
(* C7: after delete() succeeds on an instance whose id was k, the          *)
(* instance's id is None and find_by_id(k) returns None; when the delete   *)
(* fails in the store, the instance keeps the id k.                        *)
(***************************************************************************)
C7_DeleteUnpersists ==
    (last.op = "delete" /\ last.id # NoneId) =>
        LET o == Objs(last.cls)[last.self]
        IN  /\ last.outcome \in {"ok", "error"}
            /\ last.outcome = "ok" =>
                  (o.id = NoneId /\ FindById(last.cls, db, last.id).outcome = "null")
            /\ last.outcome = "error" => o.id = last.id

C7_Witness ==
    /\ last.op = "delete" /\ last.cls = "Magazine" /\ last.id # NoneId
    /\ last.outcome = "ok"
    /\ magazine_objs[last.self].id = NoneId
    /\ db.magazines # EmptyTable

(***************************************************************************)
(* C8 (as claimed): once the id of an Author instance is set, no call      *)
(* changes it, neither to another value nor back to None.                  *)
(***************************************************************************)
C8_IdNeverChanges ==
    [][\A i \in DOMAIN author_objs :
          author_objs[i].id # NoneId => author_objs'[i].id = author_objs[i].id]_vars

(***************************************************************************)
(* C8 (amended): once the id of an Author instance is set, the only call   *)
(* that changes it is a successful delete() on that instance, which sets   *)
(* it to None; save, update, the name setter, a failed delete and calls on *)
(* other instances leave it as it is.                                      *)
(***************************************************************************)
C8_IdChangesOnlyByDelete ==
    [][\A i \in DOMAIN author_objs :
          (author_objs[i].id # NoneId /\ author_objs'[i].id # author_objs[i].id) =>
              /\ last'.op = "delete" /\ last'.cls = "Author" /\ last'.self = i
              /\ last'.outcome = "ok"
              /\ author_objs'[i].id = NoneId]_vars

C8_Witness ==
    /\ last.op = "delete" /\ last.cls = "Author" /\ last.id # NoneId
    /\ last.outcome = "ok"
    /\ author_objs[last.self].id = NoneId

(***************************************************************************)
(* C9: no two Author rows have the same name and no two Magazine rows have *)
(* the same name, in every reachable state.                                *)
(***************************************************************************)
C9_NamesUnique ==
    /\ \A i, j \in DOMAIN db.authors :
          i # j => db.authors[i].name # db.authors[j].name
    /\ \A i, j \in DOMAIN db.magazines :
          i # j => db.magazines[i].name # db.magazines[j].name

\* a rename to a name another row holds was refused
C9_Witness ==
    /\ last.op = "set_name" /\ last.cls = "Author" /\ ~last.fault
    /\ last.outcome = "error"
    /\ \E j \in DOMAIN db.authors :
          j # last.id /\ db.authors[j].name = last.args[1]

(***************************************************************************)
(* C10: when the store refuses the insert of a create(...) call (a name    *)
(* already stored, a NULL, an engine failure), the call returns None       *)
(* without raising and the three tables are as they were; a save() that    *)
(* the store refuses leaves the tables as they were and the instance's id  *)
(* as it was: None for an instance that was never saved.                   *)
(***************************************************************************)
C10_StorageFailureAtomic ==
    [][calls' # calls =>
          /\ (last'.op = "create"
                /\ InsertRefused(last'.cls, db, last'.args, last'.fault)) =>
                (last'.outcome = "error" /\ db' = db)
          /\ (last'.op = "save"
                /\ SaveRefused(last'.cls, db, Objs(last'.cls)[last'.self],
                               last'.fault)) =>
                /\ last'.outcome = "error"
                /\ db' = db
                /\ ObjsOf(last'.cls, author_objs', magazine_objs',
                          article_objs')[last'.self].id = last'.id]_vars

\* a create with a valid name that is already stored was refused
C10_Witness ==
    /\ last.op = "create" /\ last.cls = "Author" /\ ~last.fault
    /\ AuthorNameOk(last.args[1])
    /\ last.outcome = "error"
    /\ \E j \in DOMAIN db.authors : db.authors[j].name = last.args[1]

(***************************************************************************)
(* Reading a table through the class that owns it                          *)
(***************************************************************************)
\* the table of class cls in store d
TableOf(cls, d) ==
    CASE cls = "Author" -> d.authors
      [] cls = "Magazine" -> d.magazines
      [] cls = "Article" -> d.articles

\* the row that holds the fields of instance o of cls
RowOf(cls, o) ==
    CASE cls = "Author" -> [name |-> o.name]
      [] cls = "Magazine" -> [name |-> o.name, category |-> o.category]
      [] cls = "Article" -> [title |-> o.title, author_id |-> o.author_id,
                             magazine_id |-> o.magazine_id]

\* the tables of the classes other than cls are the same in d and d2
OtherTablesSame(cls, d, d2) ==
    /\ cls # "Author" => d2.authors = d.authors
    /\ cls # "Magazine" => d2.magazines = d.magazines
    /\ cls # "Article" => d2.articles = d.articles

\* the instance the last call of the step was made on, after the step
SelfAfter ==
    ObjsOf(last'.cls, author_objs', magazine_objs', article_objs')[last'.self]

\* table t2 is table t with one new row, of id k, equal to row
OneRowAdded(t, t2, k, row) ==
    /\ k \notin DOMAIN t
    /\ DOMAIN t2 = DOMAIN t \cup {k}
    /\ t2[k] = row
    /\ \A j \in DOMAIN t : t2[j] = t[j]

\* store d2 is what update() of instance o of cls makes of store d: the row
\* of o's id, if there is one, holds o's fields; nothing else differs
UpdateEffect(cls, d, d2, o) ==
    LET t == TableOf(cls, d)
        t2 == TableOf(cls, d2)
    IN  /\ OtherTablesSame(cls, d, d2)
        /\ DOMAIN t2 = DOMAIN t
        /\ \A j \in DOMAIN t : t2[j] = IF j = o.id THEN RowOf(cls, o) ELSE t[j]

\* save() on an instance that has an id: no row is added or removed, the
\* instance is as it was, and the store is changed as update() changes it
SaveAsUpdate ==
    LET cls == last'.cls
        o == Objs(cls)[last'.self]
    IN  /\ SelfAfter = o
        /\ IF UpdateRefused(cls, db, o, last'.fault)
           THEN last'.outcome = "error" /\ db' = db
           ELSE last'.outcome = "ok" /\ UpdateEffect(cls, db, db', o)

\* save() on an instance without id has inserted the instance as a new row
SaveInserted ==
    LET cls == last'.cls
        o == Objs(cls)[last'.self]
    IN  /\ SelfAfter.id # NoneId
        /\ SelfAfter = [o EXCEPT !.id = SelfAfter.id]
        /\ OneRowAdded(TableOf(cls, db), TableOf(cls, db'), SelfAfter.id, RowOf(cls, o))
        /\ OtherTablesSame(cls, db, db')

(***************************************************************************)
(* C11 (as claimed): save() on an instance whose id is None inserts        *)
(* exactly one new row holding the instance's fields and sets the          *)
(* instance's id to that row's id; save() on an instance that has an id    *)
(* adds no row and does what update() does.  Stated for the calls under    *)
(* which the storage engine itself does not fail.                          *)
(***************************************************************************)
C11_SaveInsertsOrUpdates ==
    [][(calls' # calls /\ last'.op = "save" /\ ~last'.fault) =>
          IF last'.id = NoneId THEN SaveInserted ELSE SaveAsUpdate]_vars

(***************************************************************************)
(* C11 (amended): save() on an instance whose id is None inserts exactly   *)
(* one new row holding the instance's fields and sets the instance's id to *)
(* that row's id, unless the store refuses the insert (the name is already *)
(* stored, or the store fails): then no row is inserted and the id stays   *)
(* None.  save() on an instance that has an id adds no row and does what   *)
(* update() does.                                                          *)
(***************************************************************************)
C11_SaveInsertsUnlessRefused ==
    [][(calls' # calls /\ last'.op = "save") =>
          LET cls == last'.cls
              o == Objs(cls)[last'.self]
          IN  IF last'.id # NoneId THEN SaveAsUpdate
              ELSE IF InsertRefused(cls, db, Fields(cls, o), last'.fault)
              THEN db' = db /\ SelfAfter = o
              ELSE SaveInserted]_vars

\* a first save added a second row to the authors
C11_Witness ==
    /\ last.op = "save" /\ last.cls = "Author" /\ last.id = NoneId
    /\ last.outcome = "ok"
    /\ author_objs[last.self].id \in DOMAIN db.authors
    /\ Cardinality(DOMAIN db.authors) = 2

(***************************************************************************)
(* Reading a setter call                                                   *)
(***************************************************************************)
SetterOps == {"set_name", "set_category", "set_title"}

\* the value passes the validation of the setter `op` of cls
SetterValueOk(cls, op, value) ==
    CASE op = "set_name" /\ cls = "Author" -> AuthorNameOk(value)
      [] op = "set_name" /\ cls = "Magazine" -> MagazineNameOk(value)
      [] op = "set_category" -> CategoryOk(value)
      [] op = "set_title" -> TitleOk(value)

\* instance o with the field of setter `op` holding value
WithField(o, op, value) ==
    CASE op = "set_name" -> [o EXCEPT !.name = value]
      [] op = "set_category" -> [o EXCEPT !.category = value]
      [] op = "set_title" -> [o EXCEPT !.title = value]

\* the field of setter `op` in instance o
FieldOf(o, op) ==
    CASE op = "set_name" -> o.name
      [] op = "set_category" -> o.category
      [] op = "set_title" -> o.title

(***************************************************************************)
(* C12: on an instance whose id is None, update(), delete() and the four   *)
(* setters leave the store as it was; update() and delete() leave the      *)
(* instance as it was, and a setter given a valid value changes the field  *)
(* it sets in the instance and nothing else.                               *)
(***************************************************************************)
C12_UnsavedInstanceLeavesStore ==
    [][(/\ calls' # calls
        /\ last'.op \in {"update", "delete"} \cup SetterOps
        /\ last'.id = NoneId) =>
          LET o == Objs(last'.cls)[last'.self]
          IN  /\ db' = db
              /\ last'.op \in {"update", "delete"} => SelfAfter = o
              /\ (last'.op \in SetterOps
                    /\ SetterValueOk(last'.cls, last'.op, last'.args[1])) =>
                    /\ SelfAfter = WithField(o, last'.op, last'.args[1])
                    /\ SelfAfter.id = NoneId]_vars

\* a category was set on a Magazine that was never saved, beside a stored one
C12_Witness ==
    /\ last.op = "set_category" /\ last.cls = "Magazine" /\ last.id = NoneId
    /\ CategoryOk(last.args[1])
    /\ magazine_objs[last.self].category = last.args[1]
    /\ magazine_objs[last.self].id = NoneId
    /\ db.magazines # EmptyTable

\* the step is a setter call with a valid value on an instance whose id is
\* the id of a stored row
ValidSetterOnStoredRow ==
    /\ calls' # calls
    /\ last'.op \in SetterOps
    /\ SetterValueOk(last'.cls, last'.op, last'.args[1])
    /\ last'.id \in DOMAIN TableOf(last'.cls, db)

\* after the step, find_by_id of the instance's id returns an entity that
\* carries the value set, and so does the instance
SetterPersisted ==
    LET found == FindById(last'.cls, db', last'.id)
    IN  /\ found.outcome = "ok"
        /\ FieldOf(found.obj, last'.op) = last'.args[1]
        /\ FieldOf(SelfAfter, last'.op) = last'.args[1]

(***************************************************************************)
(* C13 (as claimed): after a setter is given a valid value on an instance  *)
(* of id k whose row exists, find_by_id(k) returns an entity carrying that *)
(* value: the instance's field and the stored column agree after every     *)
(* setter call that returns normally.  Stated for the calls under which    *)
(* the storage engine itself does not fail.                                *)
(***************************************************************************)
C13_SetterPersists ==
    [][(ValidSetterOnStoredRow /\ ~last'.fault) => SetterPersisted]_vars

(***************************************************************************)
(* C13 (amended): after a setter is given a valid value on an instance of  *)
(* id k whose row exists, find_by_id(k) returns an entity carrying that    *)
(* value, unless the store refuses the update (the name is another row's,  *)
(* or the store fails): then the setter still returns normally, the        *)
(* instance carries the new value and the stored row is as it was.         *)
(***************************************************************************)
C13_SetterPersistsUnlessRefused ==
    [][ValidSetterOnStoredRow =>
          LET o == Objs(last'.cls)[last'.self]
              new == WithField(o, last'.op, last'.args[1])
          IN  /\ SelfAfter = new
              /\ IF UpdateRefused(last'.cls, db, new, last'.fault)
                 THEN last'.outcome = "error" /\ db' = db
                 ELSE last'.outcome = "ok" /\ SetterPersisted]_vars

\* an author stored as "Al" was renamed and the row holds the new name
C13_Witness ==
    /\ last.op = "set_name" /\ last.cls = "Author" /\ last.outcome = "ok"
    /\ last.args[1] = PyStr("Bo")
    /\ last.id \in DOMAIN db.authors
    /\ db.authors[last.id].name = PyStr("Bo")
    /\ author_objs[last.self].name = PyStr("Bo")
    /\ \E i \in DOMAIN author_objs : i # last.self /\ author_objs[i].id = last.id
                                       /\ author_objs[i].name = PyStr("Al")

(***************************************************************************)
(* Validation at the limits of each field: constructors and setters given  *)
(* values of every length around the limits and values that are no str, on *)
(* instances never saved and on instances of stored rows.                  *)
(***************************************************************************)
\* number of calls of a run of SpecValidate
MaxValidateCalls == 2

\* values that are no str
NonStrings == {PyInt("123"), NoneVal}

\* a str of each of the given lengths
StrsOfLen(lens) == {PyStr(Rep("a", n)) : n \in lens}

AuthorNameInputs == StrsOfLen({0, 1, 255, 256}) \cup NonStrings

MagazineNameInputs == StrsOfLen({0, 1, 2, 16, 17}) \cup NonStrings

CategoryInputs == StrsOfLen({0, 1, 20, 21}) \cup NonStrings

TitleInputs == StrsOfLen({0, 1, 50, 51}) \cup NonStrings

\* (name, category) arguments with one of the two at its limits
MagazineInputs ==
    {<<n, PyStr("Ca")>> : n \in MagazineNameInputs}
        \cup {<<PyStr("Mg"), c>> : c \in CategoryInputs}

NextValidate ==
    /\ calls < MaxValidateCalls
    /\ \/ \E name \in AuthorNameInputs : AuthorNew(name)
       \/ AuthorCreate(PyStr("Al"), FALSE)
       \/ \E i \in DOMAIN author_objs, value \in AuthorNameInputs :
             AuthorSetName(i, value, FALSE)
       \/ \E nc \in MagazineInputs : MagazineNew(nc[1], nc[2])
       \/ MagazineCreate(PyStr("Mg"), PyStr("Ca"), FALSE)
       \/ \E i \in DOMAIN magazine_objs, value \in MagazineNameInputs :
             MagazineSetName(i, value, FALSE)
       \/ \E i \in DOMAIN magazine_objs, value \in CategoryInputs :
             MagazineSetCategory(i, value, FALSE)
       \/ \E title \in TitleInputs : ArticleNew(title, 1, 1)
       \/ ArticleCreate(PyStr("Ti"), 1, 1, FALSE)
       \/ \E i \in DOMAIN article_objs, value \in TitleInputs :
             ArticleSetTitle(i, value, FALSE)

SpecValidate == Init /\ [][NextValidate]_vars

\* value is outside the bounds lo..hi of a field: no str, or too short, or
\* too long
OutsideBounds(value, lo, hi) ==
    value.t # "str" \/ Len(value.v) < lo \/ Len(value.v) > hi

\* some argument of the constructor of cls is outside its field's bounds
ConstructorArgOutside(cls, args) ==
    CASE cls = "Author" -> OutsideBounds(args[1], 1, 255)
      [] cls = "Magazine" -> OutsideBounds(args[1], 2, 16) \/ OutsideBounds(args[2], 1, 20)
      [] cls = "Article" -> OutsideBounds(args[1], 1, 50)

\* the value given to setter `op` of cls is outside its field's bounds
SetterArgOutside(cls, op, value) ==
    CASE op = "set_name" /\ cls = "Author" -> OutsideBounds(value, 1, 255)
      [] op = "set_name" /\ cls = "Magazine" -> OutsideBounds(value, 2, 16)
      [] op = "set_category" -> OutsideBounds(value, 1, 20)
      [] op = "set_title" -> OutsideBounds(value, 1, 50)

(***************************************************************************)
(* C14: a constructor or a setter given a value outside its field's bounds *)
(* (empty, too long, no str) raises; no instance is made by the            *)
(* constructor; after the setter every instance, the one it was called on  *)
(* included, is as it was, and so is the store.                            *)
(***************************************************************************)
C14_InvalidValueRaises ==
    [][calls' # calls =>
          /\ (last'.op = "init" /\ ConstructorArgOutside(last'.cls, last'.args)) =>
                /\ last'.outcome = "raise"
                /\ UNCHANGED <<db, author_objs, magazine_objs, article_objs>>
          /\ (last'.op \in SetterOps
                /\ SetterArgOutside(last'.cls, last'.op, last'.args[1])) =>
                /\ last'.outcome = "raise"
                /\ UNCHANGED <<db, author_objs, magazine_objs, article_objs>>]_vars

\* a name one character too long was refused by the setter of a stored
\* Magazine, which keeps its name
C14_Witness ==
    /\ last.op = "set_name" /\ last.cls = "Magazine" /\ last.outcome = "raise"
    /\ last.args[1] = PyStr(Rep("a", 17))
    /\ last.id \in DOMAIN db.magazines
    /\ magazine_objs[last.self].name = PyStr("Mg")
    /\ db.magazines[last.id].name = PyStr("Mg")

\* the list a query returned before a step, when it returned one, has one
\* element more after it
GrowsByOne(before, after) ==
    before.outcome = "ok" =>
        (after.outcome = "ok" /\ Len(after.obj) = Len(before.obj) + 1)

MaxQueryCalls == 4

\* a table holding the given rows under the ids 1, 2, ...
TableFrom(rows) == [i \in DOMAIN rows |-> rows[i]]

\* Author.create("Al"), then Author.create("Bo"), Author.create("") or nothing
SeedAuthors ==
    {TableFrom(<<[name |-> PyStr("Al")], [name |-> PyStr("Bo")]>>),
     TableFrom(<<[name |-> PyStr("Al")], [name |-> PyStr("")]>>),
     TableFrom(<<[name |-> PyStr("Al")]>>)}

\* no magazine; Magazine.create("M", ""); or Magazine.create("Mg", c) and
\* Magazine.create("Nw", "Ca")
SeedMagazines ==
    {EmptyTable,
     TableFrom(<<[name |-> PyStr("M"), category |-> PyStr("")]>>),
     TableFrom(<<[name |-> PyStr("Mg"), category |-> PyStr("Cb")],
                 [name |-> PyStr("Nw"), category |-> PyStr("Ca")]>>),
     TableFrom(<<[name |-> PyStr("Mg"), category |-> PyStr("Ca")],
                 [name |-> PyStr("Nw"), category |-> PyStr("Ca")]>>)}

\* the entities create returned for the rows of a table: one for each row
\* that passes the validation of the constructor
Returned(cls, tbl) ==
    LET ok == {i \in DOMAIN tbl : FieldsOk(cls, Fields(cls, tbl[i]))}
    IN  [k \in 1 .. Cardinality(ok) |->
            Entity(cls, Ascending(ok)[k], Fields(cls, tbl[Ascending(ok)[k]]))]

InitQuery ==
    /\ \E authors \in SeedAuthors, magazines \in SeedMagazines :
          /\ db = [authors |-> authors, magazines |-> magazines, articles |-> EmptyTable]
          /\ author_objs = Returned("Author", authors)
          /\ magazine_objs = Returned("Magazine", magazines)
    /\ article_objs = <<>>
    /\ last = Call("none", "none", 0, <<>>, NoneId, FALSE, "ok")
    /\ calls = 0
    /\ conns = {}
    /\ run = NoRun

\* a query: the store and the instances are as they were
Query(op, cls, self, id, r) ==
    /\ Tick
    /\ last' = Call(op, cls, self, <<>>, id, FALSE, r.outcome)
    /\ UNCHANGED <<db, author_objs, magazine_objs, article_objs>>

\* a.articles()
AuthorArticles(i) ==
    Query("articles", "Author", i, author_objs[i].id, Author_articles(db, author_objs[i]))

\* a.topic_areas()
AuthorTopicAreas(i) ==
    Query("topic_areas", "Author", i, author_objs[i].id,
          Author_topic_areas(db, author_objs[i]))

\* m.articles()
MagazineArticles(i) ==
    Query("articles", "Magazine", i, magazine_objs[i].id,
          Magazine_articles(db, magazine_objs[i]))

\* m.contributing_authors()
MagazineContributingAuthors(i) ==
    Query("contributing_authors", "Magazine", i, magazine_objs[i].id,
          Magazine_contributing_authors(db, magazine_objs[i]))

\* Magazine.top_publisher(): id is the id of the row the query fetched
MagazineTopPublisher(row) ==
    Query("top_publisher", "Magazine", 0, row, Magazine_top_publisher(db, row))

\* Article.find_author_with_most_articles()
ArticleFindAuthorWithMostArticles(row) ==
    Query("find_author_with_most_articles", "Article", 0, row,
          Article_find_author_with_most_articles(db, row))

\* Article.magazines_with_multiple_authors()
ArticleMagazinesWithMultipleAuthors ==
    Query("magazines_with_multiple_authors", "Article", 0, NoneId,
          Article_magazines_with_multiple_authors(db))

\* ids passed as foreign keys in a run of SpecQuery
QueryRefs == 1 .. 2

NextQuery ==
    /\ calls < MaxQueryCalls
    /\ \/ \E author_id \in QueryRefs, magazine_id \in QueryRefs :
             ArticleCreate(PyStr("Ti"), author_id, magazine_id, FALSE)
       \/ \E i \in DOMAIN author_objs, magazine \in MagazineArgs :
             AuthorAddArticle(i, magazine, PyStr("Ti"), FALSE)
       \/ \E i \in DOMAIN author_objs : AuthorArticles(i)
       \/ \E i \in DOMAIN author_objs : AuthorTopicAreas(i)
       \/ \E i \in DOMAIN magazine_objs : MagazineArticles(i)
       \/ \E i \in DOMAIN magazine_objs : MagazineContributingAuthors(i)
       \/ \E row \in Fetchone(TopPublisherRows(db)) : MagazineTopPublisher(row)
       \/ \E row \in Fetchone(MostArticlesRows(db)) :
             ArticleFindAuthorWithMostArticles(row)
       \/ ArticleMagazinesWithMultipleAuthors

SpecQuery == InitQuery /\ [][NextQuery]_vars

\* the ids of the entities in a list a query returned
IdsIn(list) == {list[k].id : k \in DOMAIN list}

\* a list a query returned holds each of its entities once
EachOnce(list) == Cardinality(IdsIn(list)) = Len(list)

\* the number of articles rows whose column col is id
ArticleCount(col, id) == Cardinality({a \in DOMAIN db.articles : db.articles[a][col] = id})

\* every stored row passes the validation of its class
AllRowsValid ==
    /\ \A i \in DOMAIN db.authors : AuthorNameOk(db.authors[i].name)
    /\ \A i \in DOMAIN db.magazines :
          MagazineNameOk(db.magazines[i].name) /\ CategoryOk(db.magazines[i].category)
    /\ \A i \in DOMAIN db.articles : TitleOk(db.articles[i].title)

(***************************************************************************)
(* C16: m.contributing_authors() of a Magazine m that has an id returns    *)
(* exactly the authors that have more than 2 articles rows with            *)
(* magazine_id = m.id, each once, whatever the store holds.                *)
(***************************************************************************)
C16_ContributingAuthors ==
    (last.op = "contributing_authors" /\ last.id # NoneId) =>
        LET r == Magazine_contributing_authors(db, magazine_objs[last.self])
        IN  /\ last.outcome = "ok"
            /\ r.outcome = "ok"
            /\ EachOnce(r.obj)
            /\ IdsIn(r.obj) =
                  {a \in DOMAIN db.authors :
                      Cardinality({x \in DOMAIN db.articles :
                                      /\ db.articles[x].author_id = a
                                      /\ db.articles[x].magazine_id = last.id}) > 2}

\* what C16 says, in the stores whose rows are all valid
C16_OnValidRows == AllRowsValid => C16_ContributingAuthors

(***************************************************************************)
(* C17: Magazine.top_publisher() returns None exactly when the store has   *)
(* no magazines row; otherwise it returns a Magazine that has at least as  *)
(* many articles rows as every other magazine (so the one that has         *)
(* strictly the most, when there is one).                                  *)
(***************************************************************************)
C17_TopPublisher ==
    last.op = "top_publisher" =>
        /\ last.outcome = "null" <=> DOMAIN db.magazines = {}
        /\ last.outcome # "null" =>
              /\ last.outcome = "ok"
              /\ last.id \in DOMAIN db.magazines
              /\ \A m \in DOMAIN db.magazines :
                    ArticleCount("magazine_id", m) <= ArticleCount("magazine_id", last.id)

\* what C17 says, in the stores whose rows are all valid
C17_OnValidRows == AllRowsValid => C17_TopPublisher

(***************************************************************************)
(* C18: Article.magazines_with_multiple_authors() returns exactly the      *)
(* magazines whose articles rows carry at least 2 distinct author_id       *)
(* values, each once, whatever the store holds.                            *)
(***************************************************************************)
C18_MagazinesWithMultipleAuthors ==
    last.op = "magazines_with_multiple_authors" =>
        LET r == Article_magazines_with_multiple_authors(db)
        IN  /\ last.outcome = "ok"
            /\ r.outcome = "ok"
            /\ EachOnce(r.obj)
            /\ IdsIn(r.obj) =
                  {m \in DOMAIN db.magazines :
                      \E x, y \in DOMAIN db.articles :
                          /\ db.articles[x].magazine_id = m
                          /\ db.articles[y].magazine_id = m
                          /\ db.articles[x].author_id # db.articles[y].author_id}

\* what C18 says, in the stores whose rows are all valid
C18_OnValidRows == AllRowsValid => C18_MagazinesWithMultipleAuthors

(***************************************************************************)
(* C19: Article.find_author_with_most_articles() returns None exactly when *)
(* the store has no articles row; otherwise it returns an Author that has  *)
(* at least as many articles rows as every other author.                   *)
(***************************************************************************)
C19_AuthorWithMostArticles ==
    last.op = "find_author_with_most_articles" =>
        /\ last.outcome = "null" <=> DOMAIN db.articles = {}
        /\ last.outcome # "null" =>
              /\ last.outcome = "ok"
              /\ last.id \in DOMAIN db.authors
              /\ \A a \in DOMAIN db.authors :
                    ArticleCount("author_id", a) <= ArticleCount("author_id", last.id)

\* what C19 says, in the stores whose rows are all valid and whose articles
\* all reference an author row
C19_OnValidRows ==
    (AllRowsValid /\ \A x \in DOMAIN db.articles : db.articles[x].author_id \in DOMAIN db.authors)
        => C19_AuthorWithMostArticles

MaxConnCalls == 2

\* the methods of the three models, each with the shape of its body:
\*   init     the constructor: validates and assigns, no connection
\*   setter   a property setter: validate (raise), assign, self.update()
\*   insert   create(): connection, try, except (rollback), finally (close)
\*   save     save(): the insert shape when id is None, else self.update()
\*   write    update(), delete(): return at once when id is None, else
\*            connection, try, except (rollback), finally (close)
\*   read     finders and queries: connection, try, finally (close)
\*   checked  add_article(): raise TypeError, else Article.create(...)
\*   lookup   Article.author(), Article.magazine(): X.find_by_id(...)
M(cls, name, shape) == [cls |-> cls, name |-> name, shape |-> shape]

AuthorMethods ==
    { M("Author", "__init__", "init"), M("Author", "name", "setter"),
      M("Author", "create", "insert"), M("Author", "save", "save"),
      M("Author", "update", "write"), M("Author", "delete", "write"),
      M("Author", "find_by_id", "read"), M("Author", "find_by_name", "read"),
      M("Author", "get_all", "read"), M("Author", "articles", "read"),
      M("Author", "magazines", "read"), M("Author", "add_article", "checked"),
      M("Author", "topic_areas", "read") }

MagazineMethods ==
    { M("Magazine", "__init__", "init"), M("Magazine", "name", "setter"),
      M("Magazine", "category", "setter"),
      M("Magazine", "create", "insert"), M("Magazine", "save", "save"),
      M("Magazine", "update", "write"), M("Magazine", "delete", "write"),
      M("Magazine", "find_by_id", "read"),
      M("Magazine", "find_by_name", "read"), M("Magazine", "get_all", "read"),
      M("Magazine", "articles", "read"), M("Magazine", "contributors", "read"),
      M("Magazine", "article_titles", "read"),
      M("Magazine", "contributing_authors", "read"),
      M("Magazine", "top_publisher", "read") }

ArticleMethods ==
    { M("Article", "__init__", "init"), M("Article", "title", "setter"),
      M("Article", "create", "insert"), M("Article", "save", "save"),
      M("Article", "update", "write"), M("Article", "delete", "write"),
      M("Article", "find_by_id", "read"), M("Article", "find_by_title", "read"),
      M("Article", "get_all", "read"), M("Article", "author", "lookup"),
      M("Article", "magazine", "lookup"),
      M("Article", "count_articles_in_magazines", "read"),
      M("Article", "find_author_with_most_articles", "read"),
      M("Article", "magazines_with_multiple_authors", "read") }

Methods == AuthorMethods \cup MagazineMethods \cup ArticleMethods

\* the method a body hands over to
Callee(m) ==
    CASE m.shape \in {"setter", "save"} -> M(m.cls, "update", "write")
      [] m.shape = "checked" -> M("Article", "create", "insert")
      [] m.name = "author" -> M("Author", "find_by_id", "read")
      [] OTHER -> M("Magazine", "find_by_id", "read")

\* the methods called on an instance, whose path depends on self.id
OnInstance(m) == m.shape \in {"setter", "save", "write"}

\* the body raises before any statement that reaches the store: the
\* validators raise ValueError, add_article raises TypeError
RaisesEarly(m) == m.shape \in {"init", "setter", "checked"}

\* the body returns without reaching the store
ReturnsEarly(m, id_null) ==
    m.shape = "init" \/ (m.shape = "write" /\ id_null)

\* the body hands over to another method
HandsOver(m, id_null) ==
    \/ m.shape \in {"setter", "checked", "lookup"}
    \/ m.shape = "save" /\ ~id_null

\* the body opens a connection itself
Connects(m, id_null) ==
    \/ m.shape \in {"insert", "read"}
    \/ m.shape = "save" /\ id_null
    \/ m.shape = "write" /\ ~id_null

\* the try statement has an except block
Catches(m) == m.shape \in {"insert", "save", "write"}

\* the connections left open by a finally block that closes only after a
\* try body that completed
close_connection_on_success_only(cs, conn, exc) ==
    IF exc THEN cs ELSE cs \ {conn}

\* the connections left open by the finally block: close_connection(conn)
close_connection(cs, conn, exc) == cs \ {conn}

Frame(m, pc, conn) == [method |-> m, pc |-> pc, conn |-> conn]
Top == run.stack[Len(run.stack)]
Running == run.stack # <<>>
At(pc) == Running /\ Top.pc = pc
SetTop(f) == [run.stack EXCEPT ![Len(run.stack)] = f]
StoreSame == UNCHANGED <<db, author_objs, magazine_objs, article_objs, last>>

\* a client calls a method
ConnCall ==
    /\ ~Running
    /\ calls < MaxConnCalls
    /\ \E m \in Methods :
       \E id_null \in (IF OnInstance(m) THEN BOOLEAN ELSE {FALSE}) :
          run' = [stack |-> <<Frame(m, "entry", 0)>>, shape |-> m.shape,
                  id_null |-> id_null, early |-> FALSE, exc |-> FALSE,
                  acquired |-> 0, handles |-> run.handles]
    /\ calls' = calls + 1
    /\ UNCHANGED conns
    /\ StoreSame

\* a validator or the type check raises
RaiseEarly ==
    /\ At("entry")
    /\ RaisesEarly(Top.method)
    /\ run' = [run EXCEPT !.stack = SetTop([Top EXCEPT !.pc = "return"]),
                          !.early = TRUE, !.exc = TRUE]
    /\ UNCHANGED <<calls, conns>>
    /\ StoreSame

\* the constructor is done; update() and delete() return when id is None
ReturnEarly ==
    /\ At("entry")
    /\ ReturnsEarly(Top.method, run.id_null)
    /\ run' = [run EXCEPT !.stack = SetTop([Top EXCEPT !.pc = "return"])]
    /\ UNCHANGED <<calls, conns>>
    /\ StoreSame

\* self.update(), Article.create(...), X.find_by_id(...)
HandOver ==
    /\ At("entry")
    /\ HandsOver(Top.method, run.id_null)
    /\ run' = [run EXCEPT !.stack =
                   Append(SetTop([Top EXCEPT !.pc = "called"]),
                          Frame(Callee(Top.method), "entry", 0))]
    /\ UNCHANGED <<calls, conns>>
    /\ StoreSame

\* conn = get_connection(): sqlite3.connect returns a new connection
GetConnection ==
    /\ At("entry")
    /\ Connects(Top.method, run.id_null)
    /\ LET conn == run.handles + 1 IN
       /\ conns' = conns \cup {conn}
       /\ run' = [run EXCEPT
                    !.stack = SetTop([Top EXCEPT !.pc = "try", !.conn = conn]),
                    !.acquired = @ + 1, !.handles = conn]
    /\ UNCHANGED calls
    /\ StoreSame

\* conn = get_connection(): sqlite3.connect raises, outside the try
GetConnectionRaises ==
    /\ At("entry")
    /\ Connects(Top.method, run.id_null)
    /\ run' = [run EXCEPT !.stack = SetTop([Top EXCEPT !.pc = "return"]),
                          !.early = TRUE, !.exc = TRUE]
    /\ UNCHANGED <<calls, conns>>
    /\ StoreSame

\* the try body completes
TryCompletes ==
    /\ At("try")
    /\ run' = [run EXCEPT !.stack = SetTop([Top EXCEPT !.pc = "finally"])]
    /\ UNCHANGED <<calls, conns>>
    /\ StoreSame

\* a statement of the try body raises: to the except block if there is one
TryRaises ==
    /\ At("try")
    /\ IF Catches(Top.method)
       THEN run' = [run EXCEPT
                      !.stack = SetTop([Top EXCEPT !.pc = "except"])]
       ELSE run' = [run EXCEPT
                      !.stack = SetTop([Top EXCEPT !.pc = "finally"]),
                      !.exc = TRUE]
    /\ UNCHANGED <<calls, conns>>
    /\ StoreSame

\* except Exception: conn.rollback(); print(...)
ExceptCompletes ==
    /\ At("except")
    /\ run' = [run EXCEPT !.stack = SetTop([Top EXCEPT !.pc = "finally"])]
    /\ UNCHANGED <<calls, conns>>
    /\ StoreSame

\* conn.rollback() raises inside the except block
ExceptRaises ==
    /\ At("except")
    /\ run' = [run EXCEPT !.stack = SetTop([Top EXCEPT !.pc = "finally"]),
                          !.exc = TRUE]
    /\ UNCHANGED <<calls, conns>>
    /\ StoreSame

\* finally: close_connection(conn)
Finally ==
    /\ At("finally")
    /\ conns' = close_connection(conns, Top.conn, run.exc)
    /\ run' = [run EXCEPT !.stack = SetTop([Top EXCEPT !.pc = "return"])]
    /\ UNCHANGED calls
    /\ StoreSame

\* the method returns, or the exception leaves it; the caller, which has no
\* statement after the call and no handler around it, is left the same way
Return ==
    /\ At("return")
    /\ LET rest == SubSeq(run.stack, 1, Len(run.stack) - 1) IN
       run' = [run EXCEPT !.stack =
                 IF rest = <<>> THEN rest
                 ELSE [rest EXCEPT ![Len(rest)].pc = "return"]]
    /\ UNCHANGED <<calls, conns>>
    /\ StoreSame

NextConn ==
    \/ ConnCall
    \/ RaiseEarly
    \/ ReturnEarly
    \/ HandOver
    \/ GetConnection
    \/ GetConnectionRaises
    \/ TryCompletes
    \/ TryRaises
    \/ ExceptCompletes
    \/ ExceptRaises
    \/ Finally
    \/ Return

SpecConn == Init /\ [][NextConn]_vars

\* no call is running
Idle == ~Running

\* a call has returned or has been left by an exception
Returned_call == Idle /\ calls > 0

\* the call that has ended got to the statement that opens the connection:
\* it was not a constructor, nothing raised before that statement, and it
\* was not an update(), delete() or setter on an instance without id
ReachedStore ==
    /\ run.shape # "init"
    /\ ~run.early
    /\ ~(run.id_null /\ run.shape \in {"write", "setter"})

\* an open connection is the one of the method being executed, between its
\* get_connection() and the end of its finally block
OpenIsOwn ==
    conns # {} =>
        /\ Running
        /\ conns = {Top.conn}
        /\ Top.pc \in {"try", "except", "finally"}

\* C21 as stated, for the calls other than constructors that return
\* without an exception: the call has acquired exactly one connection and
\* has released it; between calls no connection is open and two
\* connections are never open at once.
C21_ExactlyOneConnection ==
    /\ Cardinality(conns) <= 1
    /\ Idle => conns = {}
    /\ (Returned_call /\ run.shape # "init" /\ ~run.exc) => run.acquired = 1

\* C21: a call that reaches the store acquires exactly one fresh connection
\* and releases it before it returns, on every exit path (normal return,
\* caught storage failure, propagated exception); a call that ends before
\* it reaches the store (a constructor, update(), delete() or a setter on an
\* instance without id, a rejected argument) acquires none; between calls
\* no connection is open and two connections are never open at once.
C21_OneConnectionWhenStoreReached ==
    /\ Cardinality(conns) <= 1
    /\ Idle => conns = {}
    /\ OpenIsOwn
    /\ \A c \in conns : c = run.handles
    /\ Returned_call => run.acquired = (IF ReachedStore THEN 1 ELSE 0)

\* the second call has been left by an exception that propagated out of a
\* try body, after a first call that had a connection too; both are closed
C21_Witness ==
    /\ Idle
    /\ calls = 2
    /\ run.exc
    /\ ~run.early
    /\ run.acquired = 1
    /\ run.handles = 2
    /\ conns = {}

(***************************************************************************)
(* Stale instances.  The calls start from stores on which a client holds   *)
(* two instances of one row: the one create returned and the one           *)
(* find_by_id returned.                                                    *)
(***************************************************************************)
MaxStaleCalls == 2

Seed(d, authors, magazines, articles) ==
    [db |-> d, author_objs |-> authors, magazine_objs |-> magazines,
     article_objs |-> articles]

SeedAl == Author_init(PyStr("Al"), 1).obj
SeedMg == Magazine_init(PyStr("Mg"), PyStr("Ca"), 1).obj
SeedTi == Article_init(PyStr("Ti"), 1, 1, 1).obj

StaleSeeds ==
    { \* Author.create("Al"); Author.find_by_id(1)
      Seed([EmptyDb EXCEPT !.authors = TableFrom(<<[name |-> PyStr("Al")]>>)],
           <<SeedAl, SeedAl>>, <<>>, <<>>),
      \* Magazine.create("Mg", "Ca"); Magazine.find_by_id(1)
      Seed([EmptyDb EXCEPT !.magazines =
               TableFrom(<<[name |-> PyStr("Mg"), category |-> PyStr("Ca")]>>)],
           <<>>, <<SeedMg, SeedMg>>, <<>>),
      \* m1 = Magazine.create("Mg", "Ca"); m2 = Magazine.find_by_id(1);
      \* m1.name = "Nw"; Magazine.create("Mg", "Cb")
      Seed([EmptyDb EXCEPT !.magazines =
               TableFrom(<<[name |-> PyStr("Nw"), category |-> PyStr("Ca")],
                           [name |-> PyStr("Mg"), category |-> PyStr("Cb")]>>)],
           <<>>,
           <<Magazine_init(PyStr("Nw"), PyStr("Ca"), 1).obj, SeedMg,
             Magazine_init(PyStr("Mg"), PyStr("Cb"), 2).obj>>,
           <<>>),
      \* Author.create("Al"); Magazine.create("Mg", "Ca");
      \* Article.create("Ti", 1, 1); Article.find_by_id(1)
      Seed([authors |-> TableFrom(<<[name |-> PyStr("Al")]>>),
            magazines |-> TableFrom(<<[name |-> PyStr("Mg"),
                                       category |-> PyStr("Ca")]>>),
            articles |-> TableFrom(<<[title |-> PyStr("Ti"), author_id |-> 1,
                                      magazine_id |-> 1]>>)],
           <<SeedAl>>, <<SeedMg>>, <<SeedTi, SeedTi>>) }

InitStale ==
    /\ \E s \in StaleSeeds :
          /\ db = s.db
          /\ author_objs = s.author_objs
          /\ magazine_objs = s.magazine_objs
          /\ article_objs = s.article_objs
    /\ last = Call("none", "none", 0, <<>>, NoneId, FALSE, "ok")
    /\ calls = 0
    /\ conns = {}
    /\ run = NoRun

NextStale == calls < MaxStaleCalls /\ (NextAuthor \/ NextMagazine \/ NextArticle)

SpecStale == InitStale /\ [][NextStale]_vars

\* the step is m2.category = y with a valid y, right after m1.name = x was
\* accepted, where m1 and m2 are two instances with the id of one stored row
StaleCategorySet ==
    /\ calls' # calls
    /\ last.op = "set_name" /\ last.cls = "Magazine" /\ last.outcome = "ok"
    /\ last'.op = "set_category" /\ last'.cls = "Magazine"
    /\ CategoryOk(last'.args[1])
    /\ last'.self # last.self
    /\ last'.id = last.id
    /\ last'.id \in DOMAIN db.magazines

(***************************************************************************)
(* C22 (as claimed): when two Magazine instances m1 and m2 have the id of   *)
(* the same row, after m1.name = x followed by m2.category = y the stored   *)
(* name is m2's in-memory name, not x, and the stored category is y.        *)
(* Stated for the calls under which the storage engine itself does not fail.*)
(***************************************************************************)
C22_StaleSetterReverts ==
    [][(StaleCategorySet /\ ~last'.fault) =>
          db'.magazines[last'.id] =
              [name |-> magazine_objs[last'.self].name,
               category |-> last'.args[1]]]_vars

(***************************************************************************)
(* C22 (amended): update() writes every column of the row from the          *)
(* instance: when m1 and m2 have the id of the same row, m2.category = y    *)
(* after m1.name = x leaves the row with m2's in-memory name and with y,    *)
(* and changes nothing else, unless the store refuses m2's UPDATE (m2's     *)
(* name is by now the name of another row, or the engine fails); then the   *)
(* store is as it was and the row keeps x.  Either way m2 holds y.          *)
(***************************************************************************)
C22_StaleSetterRevertsUnlessRefused ==
    [][StaleCategorySet =>
          LET o == magazine_objs[last'.self]
              new == [o EXCEPT !.category = last'.args[1]]
          IN  /\ db.magazines[last'.id].name = last.args[1]
              /\ SelfAfter = new
              /\ IF UpdateRefused("Magazine", db, new, last'.fault)
                 THEN db' = db /\ last'.outcome = "error"
                 ELSE /\ UpdateEffect("Magazine", db, db', new)
                      /\ db'.magazines[last'.id].name = o.name
                      /\ last'.outcome = "ok"]_vars

\* a magazine created as ("Mg", "Ca") and found again: the name was set
\* through the first instance, then the category through the second, and the
\* row holds the second instance's name, not the first's
C22_Witness ==
    /\ calls = 2
    /\ DOMAIN db.magazines = {1}
    /\ Len(magazine_objs) = 2
    /\ last.op = "set_category" /\ last.cls = "Magazine" /\ last.outcome = "ok"
    /\ \E i \in DOMAIN magazine_objs :
          /\ i # last.self
          /\ magazine_objs[i].id = last.id
          /\ magazine_objs[i].name # magazine_objs[last.self].name
          /\ magazine_objs[i].category # last.args[1]
    /\ db.magazines[last.id] =
          [name |-> magazine_objs[last.self].name, category |-> last.args[1]]

\* the step is update(), save() or a setter on an instance that has an id
\* under which no row is stored
CallOnDeletedRow ==
    /\ calls' # calls
    /\ last'.op \in {"update", "save"} \cup SetterOps
    /\ last'.id # NoneId
    /\ last'.id \notin DOMAIN TableOf(last'.cls, db)

(***************************************************************************)
(* C23: update(), save() and the setters on an instance whose id is not     *)
(* None and whose row is gone (deleted through another instance) never put  *)
(* the row back: the store is as it was, the instance keeps its id,         *)
(* find_by_id of that id returns None after the call as before it, and the  *)
(* call does not raise (a setter raises only for a value its validation     *)
(* rejects, as on any instance).                                            *)
(***************************************************************************)
C23_DeletedRowStaysDeleted ==
    [][CallOnDeletedRow =>
          /\ db' = db
          /\ SelfAfter.id = last'.id
          /\ FindById(last'.cls, db, last'.id).outcome = "null"
          /\ FindById(last'.cls, db', last'.id).outcome = "null"
          /\ last'.outcome = "raise" <=>
                (/\ last'.op \in SetterOps
                 /\ ~SetterValueOk(last'.cls, last'.op, last'.args[1]))]_vars

\* an author was deleted through one instance, which lost its id, and then
\* renamed through the other instance of the row: no row, the id is kept
C23_Witness ==
    /\ last.op = "set_name" /\ last.cls = "Author" /\ last.outcome = "ok"
    /\ last.id = 1
    /\ author_objs[last.self] = [id |-> 1, name |-> PyStr("Bo")]
    /\ \E i \in DOMAIN author_objs : i # last.self /\ author_objs[i].id = NoneId
    /\ db.authors = EmptyTable

\* the ids of the rows the step inserts into the table of the class called
Assigned == DOMAIN TableOf(last'.cls, db') \ DOMAIN TableOf(last'.cls, db)

(***************************************************************************)
(* C24: the id a create() or save() assigns to the row it inserts is not    *)
(* the id of a row stored and deleted before; so no instance obtained       *)
(* before the call holds that id, and an instance left with the id of a     *)
(* deleted row never comes to denote a row created later.  Stated for the   *)
(* calls that return the entity or give the instance its id.                *)
(***************************************************************************)
C24_IdsNeverReused ==
    [][(/\ calls' # calls
        /\ last'.op \in {"create", "save"}
        /\ last'.outcome = "ok") =>
          \A k \in Assigned :
             \A i \in DOMAIN Objs(last'.cls) : Objs(last'.cls)[i].id # k]_vars

====
